---- MODULE Spec2Model ----
(***************************************************************************)
(* CLinqCollection<TElement> (include/CLinq.hpp) as a state machine.       *)
(*                                                                         *)
(* A CLinqCollection owns one std::vector<TElement> member, _elements.  A  *)
(* std::vector is a handle on a buffer: buf[o] is the buffer the vector of *)
(* object o points at and mem[b] is the element sequence held in buffer b. *)
(* Copy construction of a vector allocates a buffer of its own, so two     *)
(* objects share elements only if their handles name the same buffer.      *)
(*                                                                         *)
(* Objects: X is the receiver of every call, Y the collection passed as an *)
(* argument, V the std::vector a collection is constructed from, R the     *)
(* collection a call returned; newElements and collection are the locals   *)
(* and the by-value parameter of the member functions.                     *)
(***************************************************************************)
EXTENDS Integers, Sequences, FiniteSets

VARIABLES
    mem,     \* buffer -> the element sequence it holds
    buf,     \* object -> the buffer its vector points at
    op,      \* the last statement of the caller, "none" once its result is dropped
    recv,    \* the collection the last statement was applied to
    arg,     \* the size_type argument of the last statement
    err,     \* the CLinqException kind it raised, "None" if none
    ret,     \* the element it returned by reference, <<>> if none
    writes   \* writes through operator[] so far

vars == <<mem, buf, op, recv, arg, err, ret, writes>>

\* Bounds of the model: collection length and element values for the calls
\* on given collections; the length of the receiver and of the argument and
\* the number of writes where collections are written to.
MaxLen == 3
MaxElem == 3
MaxLenF == 2
MaxLenArg == 1
MaxWrites == 1

Elem == 1..MaxElem

Obj == {"X", "Y", "V", "R", "newElements", "collection"}

RECURSIVE SeqsOfLen(_)
SeqsOfLen(n) ==
    IF n = 0 THEN {<<>>}
    ELSE {Append(s, e) : s \in SeqsOfLen(n - 1), e \in Elem}

SeqsUpTo(n) == UNION {SeqsOfLen(k) : k \in 0..n}

----------------------------------------------------------------------------
(* std::vector operations on the heap h = [mem, buf].                      *)

Heap == [mem |-> mem, buf |-> buf]

\* The elements object o holds.
Elements(h, o) == h.mem[h.buf[o]]

\* std::vector<TElement>(first, last) / (count, value) / (): o gets a buffer
\* of its own holding s.
VectorConstruct(h, o, s) ==
    [mem |-> [h.mem EXCEPT ![o] = s], buf |-> [h.buf EXCEPT ![o] = o]]

\* A copy that points dst at src's buffer.
VectorCopyShallow(h, dst, src) ==
    [mem |-> h.mem, buf |-> [h.buf EXCEPT ![dst] = h.buf[src]]]

\* std::vector copy construction, _elements(elements) and
\* auto newElements = _elements: a buffer of its own with src's elements.
VectorCopy(h, dst, src) == VectorConstruct(h, dst, Elements(h, src))

\* The end of a local's lifetime: its own buffer is released.
VectorDestroy(h, o) ==
    [mem |-> [h.mem EXCEPT ![o] = <<>>], buf |-> [h.buf EXCEPT ![o] = o]]

\* newElements.resize(n) with n <= size: the buffer keeps its first n elements.
VectorResize(h, o, n) ==
    [mem |-> [h.mem EXCEPT ![h.buf[o]] = SubSeq(@, 1, n)], buf |-> h.buf]

\* newElements.emplace_back(v)
VectorEmplaceBack(h, o, v) ==
    [mem |-> [h.mem EXCEPT ![h.buf[o]] = Append(@, v)], buf |-> h.buf]

\* newElements.emplace(newElements.begin(), v)
VectorEmplaceFront(h, o, v) ==
    [mem |-> [h.mem EXCEPT ![h.buf[o]] = <<v>> \o @], buf |-> h.buf]

\* std::reverse(newElements.begin(), newElements.end())
VectorReverse(h, o) ==
    [mem |-> [h.mem EXCEPT ![h.buf[o]] = [i \in 1..Len(@) |-> @[Len(@) + 1 - i]]],
     buf |-> h.buf]

\* _elements[i] = v through the reference operator[] returns (i is 0-based).
VectorWrite(h, o, i, v) ==
    [mem |-> [h.mem EXCEPT ![h.buf[o]] = [@ EXCEPT ![i + 1] = v]], buf |-> h.buf]

----------------------------------------------------------------------------
(* Outcomes of a call: the heap after it, the error raised ("None" if      *)
(* none) and the element returned by reference (<<>> if none).             *)

\* CLinqException kinds, by the message the throw site gives.
EmptyCollection == "EmptyCollection"
IndexOutOfRange == "IndexOutOfRange"
InvalidOperation == "InvalidOperation"
MultipleElements == "MultipleElements"

Throw(h, kind) == [mem |-> h.mem, buf |-> h.buf, err |-> kind, ret |-> <<>>]

ReturnElement(h, e) == [mem |-> h.mem, buf |-> h.buf, err |-> "None", ret |-> <<e>>]

\* A bool, size_type, map or other value returned by value.
ReturnValue(h, v) == [mem |-> h.mem, buf |-> h.buf, err |-> "None", ret |-> <<v>>]

\* return CLinqCollection<TElement>(vector): the constructor from a vector
\* copies the local into R's _elements, then the local goes out of scope.
ReturnCollection(h, local) ==
    LET h1 == VectorCopy(h, "R", local)
        h2 == VectorDestroy(h1, local)
    IN [mem |-> h2.mem, buf |-> h2.buf, err |-> "None", ret |-> <<>>]

\* ThrowIfEmpty and ThrowIfOutOfRange: TRUE iff the check throws.
ThrowIfEmpty(elements) == elements = <<>>

ThrowIfOutOfRange(elements, index) == index >= Len(elements)

----------------------------------------------------------------------------
(* Construction and indexed write.                                         *)

\* CLinqCollection(std::vector<TElement> const& elements): _elements(elements)
ConstructFromVector(h, this, elements) == VectorCopy(h, this, elements)

\* CLinqCollection(TElement* memory, size_type numberOfElements):
\* _elements(memory, memory + numberOfElements)
ConstructFromMemory(h, this, memory, numberOfElements) ==
    VectorConstruct(h, this, SubSeq(Elements(h, memory), 1, numberOfElements))

\* A copy that takes over the source's buffer instead of copying it.
CopyShares(h, this, other) ==
    [mem |-> h.mem, buf |-> [h.buf EXCEPT ![this] = h.buf[other]]]

\* The implicit copy constructor: member-wise, so _elements is copy
\* constructed.
CopyConstruct(h, this, other) == VectorCopy(h, this, other)

\* CLinqCollection(): _elements(std::vector<TElement>())
DefaultConstruct(h, this) == VectorConstruct(h, this, <<>>)

\* static Empty(): return CLinqCollection<TElement>(), constructed in R.
Empty(h) ==
    LET h1 == DefaultConstruct(h, "R")
    IN [mem |-> h1.mem, buf |-> h1.buf, err |-> "None", ret |-> <<>>]

\* std::vector operator==, which the defaulted comparison applies to
\* _elements: the sizes are equal and std::equal finds no mismatch.
RECURSIVE VectorEqualLoop(_, _)
VectorEqualLoop(a, b) ==
    IF a = <<>> THEN TRUE
    ELSE IF Head(a) # Head(b) THEN FALSE
    ELSE VectorEqualLoop(Tail(a), Tail(b))

VectorEquals(a, b) == Len(a) = Len(b) /\ VectorEqualLoop(a, b)

\* operator== as the defaulted operator<=> declares it: member-wise, the
\* only member being _elements.  OperatorEqualsUnordered compares the sizes
\* and the sets of elements instead.
OperatorEqualsUnordered(h, this, other) ==
    LET a == Elements(h, this)
        b == Elements(h, other)
    IN ReturnValue(h, Len(a) = Len(b)
                      /\ {a[i] : i \in 1..Len(a)} = {b[i] : i \in 1..Len(b)})

OperatorEquals(h, this, other) ==
    ReturnValue(h, VectorEquals(Elements(h, this), Elements(h, other)))

\* Repeat: the temporary std::vector<TElement>(count, element) is handed to
\* the constructor from a vector.
Repeat(h, element, count) ==
    ReturnCollection(VectorConstruct(h, "newElements", [i \in 1..count |-> element]),
                     "newElements")

\* TElement is int where the tests call Range: the largest and the smallest
\* value of the type.
IntMax == (2^30 - 1) + 2^30

IntMin == (-IntMax) - 1

\* ++element leaves the next integer in element.  At the largest value the
\* increment overflows, which is undefined for a signed integer: element
\* then holds the wrapped value or any other value of the type.
Increment(element) ==
    IF element < IntMax THEN {element + 1} ELSE {IntMin, 0, IntMax}

\* The loop of Range from index i (counting from 0): every vector elements
\* it can end with.
RECURSIVE RangeLoop(_, _, _, _)
RangeLoop(element, elements, i, count) ==
    IF ~(i < count) THEN {elements}
    ELSE UNION {RangeLoop(next, [elements EXCEPT ![i + 1] = element], i + 1, count) :
                   next \in Increment(element)}

\* Range incrementing element before it is stored.
RECURSIVE RangeLoopIncrementsFirst(_, _, _, _)
RangeLoopIncrementsFirst(element, elements, i, count) ==
    IF ~(i < count) THEN {elements}
    ELSE UNION {RangeLoopIncrementsFirst(next, [elements EXCEPT ![i + 1] = next],
                                         i + 1, count) :
                   next \in Increment(element)}

RangeIncrementsFirst(h, initial, count) ==
    {ReturnCollection(VectorConstruct(h, "newElements", elements), "newElements") :
        elements \in RangeLoopIncrementsFirst(initial, [i \in 1..count |-> 0], 0, count)}

\* Range: elements is a vector of count value-initialised elements, filled by
\* the loop and returned; the set of the outcomes the call can have.  The
\* local vector elements is the object newElements of the heap.
Range(h, initial, count) ==
    {ReturnCollection(VectorConstruct(h, "newElements", elements), "newElements") :
        elements \in RangeLoop(initial, [i \in 1..count |-> 0], 0, count)}

\* TElement& operator[](i) and the assignment of v through the reference.
OperatorIndex(h, this, i, v) == VectorWrite(h, this, i, v)

\* *(begin() + i) = v: the non-const begin() and end() hand out
\* std::vector<TElement>::iterator, which writes into _elements.
IteratorWrite(h, this, i, v) == VectorWrite(h, this, i, v)

----------------------------------------------------------------------------
(* Member functions, receiver this.                                        *)

\* At with the two checks in the other order.
AtRangeFirst(h, this, index) ==
    LET _elements == Elements(h, this) IN
    IF ThrowIfOutOfRange(_elements, index) THEN Throw(h, IndexOutOfRange)
    ELSE IF ThrowIfEmpty(_elements) THEN Throw(h, EmptyCollection)
    ELSE ReturnElement(h, _elements[index + 1])

At(h, this, index) ==
    LET _elements == Elements(h, this) IN
    IF ThrowIfEmpty(_elements) THEN Throw(h, EmptyCollection)
    ELSE IF ThrowIfOutOfRange(_elements, index) THEN Throw(h, IndexOutOfRange)
    ELSE ReturnElement(h, _elements[index + 1])

\* Skip starting one element early (begin() + n - 1 for n > 0).
SkipOneEarly(h, this, numberOfElements) ==
    LET _elements == Elements(h, this) IN
    IF numberOfElements > Len(_elements) THEN Throw(h, InvalidOperation)
    ELSE ReturnCollection(
            VectorConstruct(h, "newElements",
                SubSeq(_elements,
                       IF numberOfElements > 0 THEN numberOfElements ELSE 1,
                       Len(_elements))),
            "newElements")

Skip(h, this, numberOfElements) ==
    LET _elements == Elements(h, this) IN
    IF numberOfElements > Len(_elements) THEN Throw(h, InvalidOperation)
    ELSE ReturnCollection(
            VectorConstruct(h, "newElements",
                SubSeq(_elements, numberOfElements + 1, Len(_elements))),
            "newElements")

SkipLast(h, this, numberOfElements) ==
    LET _elements == Elements(h, this) IN
    IF numberOfElements > Len(_elements) THEN Throw(h, InvalidOperation)
    ELSE ReturnCollection(
            VectorConstruct(h, "newElements",
                SubSeq(_elements, 1, Len(_elements) - numberOfElements)),
            "newElements")

\* Take refusing a count equal to the size (>= for >).
TakeRefusesAll(h, this, numberOfElements) ==
    LET _elements == Elements(h, this) IN
    IF numberOfElements >= Len(_elements) THEN Throw(h, InvalidOperation)
    ELSE LET h1 == VectorCopy(h, "newElements", this)
             h2 == VectorResize(h1, "newElements", numberOfElements)
         IN ReturnCollection(h2, "newElements")

Take(h, this, numberOfElements) ==
    LET _elements == Elements(h, this) IN
    IF numberOfElements > Len(_elements) THEN Throw(h, InvalidOperation)
    ELSE LET h1 == VectorCopy(h, "newElements", this)
             h2 == VectorResize(h1, "newElements", numberOfElements)
         IN ReturnCollection(h2, "newElements")

\* TakeLast walking backwards from the end (rbegin(), rbegin() + n).
TakeLastBackwards(h, this, numberOfElements) ==
    LET _elements == Elements(h, this) IN
    IF numberOfElements > Len(_elements) THEN Throw(h, InvalidOperation)
    ELSE ReturnCollection(
            VectorConstruct(h, "newElements",
                [i \in 1..numberOfElements |-> _elements[Len(_elements) + 1 - i]]),
            "newElements")

TakeLast(h, this, numberOfElements) ==
    LET _elements == Elements(h, this) IN
    IF numberOfElements > Len(_elements) THEN Throw(h, InvalidOperation)
    ELSE ReturnCollection(
            VectorConstruct(h, "newElements",
                SubSeq(_elements, Len(_elements) - numberOfElements + 1, Len(_elements))),
            "newElements")

\* std::find(vector.begin(), vector.end(), value) != vector.end()
VectorContains(vector, value) == \E i \in 1..Len(vector) : vector[i] = value

\* operator+ with the operands filled in the other order.
OperatorPlusSwapped(h, this, collection) ==
    LET a == Elements(h, this)
        b == Elements(h, collection)
        newSize == Len(a) + Len(b)
        newElements == [i \in 1..newSize |->
                           IF i <= Len(b) THEN b[i] ELSE a[i - Len(b)]]
    IN ReturnCollection(VectorConstruct(h, "newElements", newElements), "newElements")

\* operator+: a vector of newSize elements, its first _elements.size()
\* positions filled from this, the rest from collection, index counting from 0.
OperatorPlus(h, this, collection) ==
    LET a == Elements(h, this)
        b == Elements(h, collection)
        newSize == Len(a) + Len(b)
        newElements == [i \in 1..newSize |->
                           IF i <= Len(a) THEN a[i] ELSE b[i - Len(a)]]
    IN ReturnCollection(VectorConstruct(h, "newElements", newElements), "newElements")

\* Concat takes its argument by value: the parameter collection is a copy of
\* the argument, destroyed when the call returns.
Concat(h, this, argument) ==
    LET h1 == VectorCopy(h, "collection", argument)
        o == OperatorPlus(h1, this, "collection")
        h2 == VectorDestroy(o, "collection")
    IN [mem |-> h2.mem, buf |-> h2.buf, err |-> o.err, ret |-> o.ret]

\* The loop of Distinct over the elements still to visit.
RECURSIVE DistinctLoop(_, _)
DistinctLoop(elements, newElements) ==
    IF elements = <<>> THEN newElements
    ELSE LET element == Head(elements) IN
         DistinctLoop(Tail(elements),
                      IF ~VectorContains(newElements, element)
                      THEN Append(newElements, element)
                      ELSE newElements)

\* Distinct comparing each element with its predecessor only (std::unique).
RECURSIVE UniqueLoop(_, _)
UniqueLoop(elements, newElements) ==
    IF elements = <<>> THEN newElements
    ELSE LET element == Head(elements) IN
         UniqueLoop(Tail(elements),
                    IF newElements = <<>> \/ newElements[Len(newElements)] # element
                    THEN Append(newElements, element)
                    ELSE newElements)

DistinctAdjacent(h, this) ==
    ReturnCollection(
        VectorConstruct(h, "newElements", UniqueLoop(Elements(h, this), <<>>)),
        "newElements")

Distinct(h, this) ==
    ReturnCollection(
        VectorConstruct(h, "newElements", DistinctLoop(Elements(h, this), <<>>)),
        "newElements")

\* Union appending every distinct element of collection, present or not.
UnionAppendsAll(h, this, collection) ==
    LET newElements == DistinctLoop(Elements(h, this), <<>>)
        distinctCollection == DistinctLoop(Elements(h, collection), <<>>)
    IN ReturnCollection(
           VectorConstruct(h, "newElements", newElements \o distinctCollection),
           "newElements")

\* Union: newElements starts as Distinct()._elements and the loop over
\* collection.Distinct()._elements appends what newElements does not contain,
\* which is the loop of Distinct continued on newElements.
Union(h, this, collection) ==
    LET newElements == DistinctLoop(Elements(h, this), <<>>)
        distinctCollection == DistinctLoop(Elements(h, collection), <<>>)
    IN ReturnCollection(
           VectorConstruct(h, "newElements",
               DistinctLoop(distinctCollection, newElements)),
           "newElements")

\* The loop of Intersection over the elements still to visit.
RECURSIVE IntersectionLoop(_, _, _, _)
IntersectionLoop(elements, _elements, other, newElements) ==
    IF elements = <<>> THEN newElements
    ELSE LET element == Head(elements) IN
         IntersectionLoop(Tail(elements), _elements, other,
                          IF VectorContains(_elements, element)
                             /\ VectorContains(other, element)
                          THEN Append(newElements, element)
                          ELSE newElements)

\* Intersection as a set: each common value once.
IntersectionOfSets(h, this, collection) ==
    ReturnCollection(
        VectorConstruct(h, "newElements",
            DistinctLoop(
                IntersectionLoop(Elements(h, this), Elements(h, this),
                                 Elements(h, collection), <<>>),
                <<>>)),
        "newElements")

Intersection(h, this, collection) ==
    ReturnCollection(
        VectorConstruct(h, "newElements",
            IntersectionLoop(Elements(h, this), Elements(h, this),
                             Elements(h, collection), <<>>)),
        "newElements")

\* MatchFunction and ProjectionFunction: a match function is the set of
\* elements it accepts, a projection a function on the elements.
Match(matchFunction, element) == element \in matchFunction

RECURSIVE AllLoop(_, _)
AllLoop(elements, matchFunction) ==
    IF elements = <<>> THEN TRUE
    ELSE IF ~Match(matchFunction, Head(elements)) THEN FALSE
    ELSE AllLoop(Tail(elements), matchFunction)

\* All answering false for a collection without elements.
AllNonEmpty(h, this, matchFunction) ==
    ReturnValue(h, Elements(h, this) # <<>> /\ AllLoop(Elements(h, this), matchFunction))

All(h, this, matchFunction) == ReturnValue(h, AllLoop(Elements(h, this), matchFunction))

Any(h, this) == ReturnValue(h, ~(Elements(h, this) = <<>>))

RECURSIVE AnyLoop(_, _)
AnyLoop(elements, matchFunction) ==
    IF elements = <<>> THEN FALSE
    ELSE IF Match(matchFunction, Head(elements)) THEN TRUE
    ELSE AnyLoop(Tail(elements), matchFunction)

AnyMatch(h, this, matchFunction) ==
    ReturnValue(h, AnyLoop(Elements(h, this), matchFunction))

AppendElement(h, this, element) ==
    LET h1 == VectorCopy(h, "newElements", this)
        h2 == VectorEmplaceBack(h1, "newElements", element)
    IN ReturnCollection(h2, "newElements")

Contains(h, this, element) == ReturnValue(h, VectorContains(Elements(h, this), element))

CountAll(h, this) == ReturnValue(h, Len(Elements(h, this)))

RECURSIVE CountLoop(_, _, _)
CountLoop(elements, matchFunction, count) ==
    IF elements = <<>> THEN count
    ELSE CountLoop(Tail(elements), matchFunction,
                   IF Match(matchFunction, Head(elements)) THEN count + 1 ELSE count)

CountMatch(h, this, matchFunction) ==
    ReturnValue(h, CountLoop(Elements(h, this), matchFunction, 0))

RECURSIVE ExceptLoop(_, _, _)
ExceptLoop(elements, other, newElements) ==
    IF elements = <<>> THEN newElements
    ELSE LET element == Head(elements) IN
         ExceptLoop(Tail(elements), other,
                    IF ~VectorContains(other, element)
                    THEN Append(newElements, element)
                    ELSE newElements)

\* Except testing membership in newElements instead of collection.
ExceptChecksResult(h, this, collection) ==
    ReturnCollection(
        VectorConstruct(h, "newElements", DistinctLoop(Elements(h, this), <<>>)),
        "newElements")

Except(h, this, collection) ==
    ReturnCollection(
        VectorConstruct(h, "newElements",
            ExceptLoop(Elements(h, this), Elements(h, collection), <<>>)),
        "newElements")

First(h, this) ==
    LET _elements == Elements(h, this) IN
    IF ThrowIfEmpty(_elements) THEN Throw(h, EmptyCollection)
    ELSE ReturnElement(h, _elements[1])

\* Last reading one position before the back.
LastButOne(h, this) ==
    LET _elements == Elements(h, this) IN
    IF ThrowIfEmpty(_elements) THEN Throw(h, EmptyCollection)
    ELSE ReturnElement(h, _elements[IF Len(_elements) > 1 THEN Len(_elements) - 1 ELSE 1])

Last(h, this) ==
    LET _elements == Elements(h, this) IN
    IF ThrowIfEmpty(_elements) THEN Throw(h, EmptyCollection)
    ELSE ReturnElement(h, _elements[Len(_elements)])

\* Prepend emplacing the element at the end of the copy.
PrependAtEnd(h, this, element) ==
    LET h1 == VectorCopy(h, "newElements", this)
        h2 == VectorEmplaceBack(h1, "newElements", element)
    IN ReturnCollection(h2, "newElements")

Prepend(h, this, element) ==
    LET h1 == VectorCopy(h, "newElements", this)
        h2 == VectorEmplaceFront(h1, "newElements", element)
    IN ReturnCollection(h2, "newElements")

\* Reverse without the call of std::reverse.
ReverseKeepsOrder(h, this) ==
    LET h1 == VectorCopy(h, "newElements", this)
    IN ReturnCollection(h1, "newElements")

Reverse(h, this) ==
    LET h1 == VectorCopy(h, "newElements", this)
        h2 == VectorReverse(h1, "newElements")
    IN ReturnCollection(h2, "newElements")

\* Select projecting every element from the first element.
SelectOfFirst(h, this, projectionFunction) ==
    LET _elements == Elements(h, this) IN
    ReturnCollection(
        VectorConstruct(h, "newElements",
            [i \in 1..Len(_elements) |-> projectionFunction[_elements[1]]]),
        "newElements")

Select(h, this, projectionFunction) ==
    LET _elements == Elements(h, this) IN
    ReturnCollection(
        VectorConstruct(h, "newElements",
            [i \in 1..Len(_elements) |-> projectionFunction[_elements[i]]]),
        "newElements")

\* Single without the test for more than one element.
SingleOfMany(h, this) ==
    LET _elements == Elements(h, this) IN
    IF ThrowIfEmpty(_elements) THEN Throw(h, EmptyCollection)
    ELSE ReturnElement(h, _elements[1])

Single(h, this) ==
    LET _elements == Elements(h, this) IN
    IF ThrowIfEmpty(_elements) THEN Throw(h, EmptyCollection)
    ELSE IF Len(_elements) > 1 THEN Throw(h, MultipleElements)
    ELSE ReturnElement(h, _elements[1])

\* The loop of SkipWhile: the number of leading elements that match.
RECURSIVE SkipWhileLoop(_, _, _)
SkipWhileLoop(elements, matchFunction, skipNumber) ==
    IF elements = <<>> THEN skipNumber
    ELSE IF Match(matchFunction, Head(elements))
    THEN SkipWhileLoop(Tail(elements), matchFunction, skipNumber + 1)
    ELSE skipNumber

\* SkipWhile counting every matching element, without the break.
SkipWhileCountsAll(h, this, matchFunction) ==
    Skip(h, this, CountLoop(Elements(h, this), matchFunction, 0))

SkipWhile(h, this, matchFunction) ==
    Skip(h, this, SkipWhileLoop(Elements(h, this), matchFunction, 0))

\* StaticCast<bool>: static_cast<bool>(element) is element != 0.
StaticCast(h, this) ==
    LET _elements == Elements(h, this) IN
    ReturnCollection(
        VectorConstruct(h, "newElements",
            [i \in 1..Len(_elements) |-> _elements[i] # 0]),
        "newElements")

RECURSIVE TakeWhileLoop(_, _, _)
TakeWhileLoop(elements, matchFunction, newElements) ==
    IF elements = <<>> THEN newElements
    ELSE IF Match(matchFunction, Head(elements))
    THEN TakeWhileLoop(Tail(elements), matchFunction, Append(newElements, Head(elements)))
    ELSE newElements

TakeWhile(h, this, matchFunction) ==
    ReturnCollection(
        VectorConstruct(h, "newElements",
            TakeWhileLoop(Elements(h, this), matchFunction, <<>>)),
        "newElements")

RECURSIVE WhereLoop(_, _, _)
WhereLoop(elements, matchFunction, newElements) ==
    IF elements = <<>> THEN newElements
    ELSE WhereLoop(Tail(elements), matchFunction,
                   IF Match(matchFunction, Head(elements))
                   THEN Append(newElements, Head(elements))
                   ELSE newElements)

\* Where leaving the loop at the first element that does not match.
WhereStopsAtFailure(h, this, matchFunction) ==
    ReturnCollection(
        VectorConstruct(h, "newElements",
            TakeWhileLoop(Elements(h, this), matchFunction, <<>>)),
        "newElements")

Where(h, this, matchFunction) ==
    ReturnCollection(
        VectorConstruct(h, "newElements",
            WhereLoop(Elements(h, this), matchFunction, <<>>)),
        "newElements")

\* ToVector returns _elements by value, ToList a std::list of the range
\* [begin(), end()): R is the std::vector or std::list returned.
ToVector(h, this) ==
    LET h1 == VectorCopy(h, "R", this)
    IN [mem |-> h1.mem, buf |-> h1.buf, err |-> "None", ret |-> <<>>]

ToList(h, this) ==
    LET h1 == VectorConstruct(h, "R", Elements(h, this))
    IN [mem |-> h1.mem, buf |-> h1.buf, err |-> "None", ret |-> <<>>]

\* std::set(first, last): the distinct elements in ascending order.
RECURSIVE StdSet(_)
StdSet(values) ==
    IF values = {} THEN <<>>
    ELSE LET least == CHOOSE v \in values : \A w \in values : v <= w
         IN <<least>> \o StdSet(values \ {least})

\* The outcome of a call that does not compile: nothing runs and nothing is
\* returned.
IllFormed == "IllFormed"

\* return set; in a function declared to return std::list<TElement>: the
\* return statement needs an implicit conversion from std::set to std::list,
\* and there is none.
ReturnSetAsList(h, set) == [mem |-> h.mem, buf |-> h.buf, err |-> IllFormed, ret |-> <<>>]

\* ToSet is declared to return std::list<TElement> and returns the std::set
\* of the range [begin(), end()).
ToSet(h, this) ==
    LET _elements == Elements(h, this) IN
    ReturnSetAsList(h, StdSet({_elements[i] : i \in 1..Len(_elements)}))

\* map[key] = value: the key is inserted if absent, its value replaced if not.
MapAssign(map, key, value) ==
    [k \in (DOMAIN map) \cup {key} |-> IF k = key THEN value ELSE map[k]]

RECURSIVE ToMapLoop(_, _, _, _)
ToMapLoop(elements, keySelector, valueSelector, map) ==
    IF elements = <<>> THEN map
    ELSE LET element == Head(elements) IN
         ToMapLoop(Tail(elements), keySelector, valueSelector,
                   MapAssign(map, keySelector[element], valueSelector[element]))

\* ToMapCore with TMap{} the empty map; ToMap and ToUnorderedMap differ in
\* the map type only.  ToMapCoreKeepsFirst keeps the value a key already
\* has: the elements are assigned from the last to the first.
ToMapCoreKeepsFirst(h, this, keySelector, valueSelector) ==
    LET _elements == Elements(h, this) IN
    ReturnValue(h, ToMapLoop([i \in 1..Len(_elements) |-> _elements[Len(_elements) + 1 - i]],
                             keySelector, valueSelector, <<>>))

ToMapCore(h, this, keySelector, valueSelector) ==
    ReturnValue(h, ToMapLoop(Elements(h, this), keySelector, valueSelector, <<>>))

ToMap(h, this, keySelector, valueSelector) == ToMapCore(h, this, keySelector, valueSelector)

ToUnorderedMap(h, this, keySelector, valueSelector) ==
    ToMapCore(h, this, keySelector, valueSelector)

----------------------------------------------------------------------------
(* State and steps.                                                        *)

X == Elements(Heap, "X")
Y == Elements(Heap, "Y")
V == Elements(Heap, "V")
R == Elements(Heap, "R")

Count(elements) == Len(elements)

\* The heap after construction: X from an initializer list xs, Y from ys,
\* the vector V holding vs; no call has been made and nothing is returned.
InitHeap(xs, ys, vs) ==
    /\ mem = [o \in Obj |->
                 CASE o = "X" -> xs [] o = "Y" -> ys [] o = "V" -> vs [] OTHER -> <<>>]
    /\ buf = [o \in Obj |-> o]
    /\ op = "none"
    /\ recv = "X"
    /\ arg = 0
    /\ err = "None"
    /\ ret = <<>>
    /\ writes = 0

\* The caller calls member function name of X with argument a, and o is the
\* outcome; the collection returned by an earlier call has been dropped.
Called(name, a, o) ==
    /\ op = "none"
    /\ mem' = o.mem
    /\ buf' = o.buf
    /\ err' = o.err
    /\ ret' = o.ret
    /\ op' = name
    /\ recv' = "X"
    /\ arg' = a
    /\ UNCHANGED writes

\* The caller drops what the last statement returned: the returned collection
\* is destroyed.
DiscardStep ==
    /\ op # "none"
    /\ LET h == VectorDestroy(Heap, "R") IN mem' = h.mem /\ buf' = h.buf
    /\ op' = "none"
    /\ recv' = "X"
    /\ arg' = 0
    /\ err' = "None"
    /\ ret' = <<>>
    /\ UNCHANGED writes

\* size_type arguments a caller passes: every valid count and one past MaxLen.
Sizes == 0..(MaxLen + 1)

AtStep == \E i \in Sizes : Called("At", i, At(Heap, "X", i))

SkipStep == \E n \in Sizes : Called("Skip", n, Skip(Heap, "X", n))

SkipLastStep == \E n \in Sizes : Called("SkipLast", n, SkipLast(Heap, "X", n))

TakeStep == \E n \in Sizes : Called("Take", n, Take(Heap, "X", n))

TakeLastStep == \E n \in Sizes : Called("TakeLast", n, TakeLast(Heap, "X", n))

PlusStep == Called("+", 0, OperatorPlus(Heap, "X", "Y"))

ConcatStep == Called("Concat", 0, Concat(Heap, "X", "Y"))

DistinctStep == Called("Distinct", 0, Distinct(Heap, "X"))

UnionStep == Called("Union", 0, Union(Heap, "X", "Y"))

IntersectionStep == Called("Intersection", 0, Intersection(Heap, "X", "Y"))

ExceptStep == Called("Except", 0, Except(Heap, "X", "Y"))

EqualsStep == Called("==", 0, OperatorEquals(Heap, "X", "Y"))

EmptyStep == Called("Empty", 0, Empty(Heap))

\* The counts a caller passes to the factories.
Counts == 0..MaxLen

\* The initial elements a caller passes to Range: small values and the
\* values from which count increments pass the largest int.
Initials == Elem \cup {IntMax - k : k \in 0..MaxLen}

RepeatStep ==
    \E element \in Elem, count \in Counts :
        Called("Repeat", <<element, count>>, Repeat(Heap, element, count))

RangeStep ==
    \E initial \in Initials, count \in Counts :
        \E o \in Range(Heap, initial, count) :
            Called("Range", <<initial, count>>, o)

\* The match functions and projections a caller passes.
MatchFunctions == SUBSET Elem

Projections == {[e \in Elem |-> e], [e \in Elem |-> e * e], [e \in Elem |-> e % 2]}

AllStep == \E m \in MatchFunctions : Called("All", m, All(Heap, "X", m))

AnyStep == Called("Any", 0, Any(Heap, "X"))

AnyMatchStep == \E m \in MatchFunctions : Called("AnyMatch", m, AnyMatch(Heap, "X", m))

CountStep == Called("Count", 0, CountAll(Heap, "X"))

CountMatchStep == \E m \in MatchFunctions : Called("CountMatch", m, CountMatch(Heap, "X", m))

WhereStep == \E m \in MatchFunctions : Called("Where", m, Where(Heap, "X", m))

SkipWhileStep == \E m \in MatchFunctions : Called("SkipWhile", m, SkipWhile(Heap, "X", m))

TakeWhileStep == \E m \in MatchFunctions : Called("TakeWhile", m, TakeWhile(Heap, "X", m))

AppendStep == \E e \in Elem : Called("Append", e, AppendElement(Heap, "X", e))

PrependStep == \E e \in Elem : Called("Prepend", e, Prepend(Heap, "X", e))

ContainsStep == \E e \in Elem : Called("Contains", e, Contains(Heap, "X", e))

FirstStep == Called("First", 0, First(Heap, "X"))

LastStep == Called("Last", 0, Last(Heap, "X"))

SingleStep == Called("Single", 0, Single(Heap, "X"))

ReverseStep == Called("Reverse", 0, Reverse(Heap, "X"))

SelectStep == \E f \in Projections : Called("Select", f, Select(Heap, "X", f))

StaticCastStep == Called("StaticCast", 0, StaticCast(Heap, "X"))

ToVectorStep == Called("ToVector", 0, ToVector(Heap, "X"))

ToListStep == Called("ToList", 0, ToList(Heap, "X"))

ToSetStep == Called("ToSet", 0, ToSet(Heap, "X"))

ToMapStep ==
    \E k \in Projections, v \in Projections :
        Called("ToMap", <<k, v>>, ToMap(Heap, "X", k, v))

ToUnorderedMapStep ==
    \E k \in Projections, v \in Projections :
        Called("ToUnorderedMap", <<k, v>>, ToUnorderedMap(Heap, "X", k, v))

\* A write of v at position i of collection this by statement name; what an
\* earlier call returned stays alive across the write.
Written(name, this, i, v, h) ==
    /\ writes < MaxWrites
    /\ mem' = h.mem
    /\ buf' = h.buf
    /\ op' = name
    /\ recv' = this
    /\ arg' = i
    /\ err' = "None"
    /\ ret' = <<v>>
    /\ writes' = writes + 1

\* collection[i] = v on X or Y, with i < Count() as operator[] requires of
\* its caller.
WriteStep ==
    \E this \in {"X", "Y"} :
        \E i \in 0..(Count(Elements(Heap, this)) - 1), v \in Elem :
            Written("[]=", this, i, v, OperatorIndex(Heap, this, i, v))

\* *(collection.begin() + i) = v on X or Y, with the iterator in range; this
\* is also what for (auto& element : collection) element = v does.
IteratorWriteStep ==
    \E this \in {"X", "Y"} :
        \E i \in 0..(Count(Elements(Heap, this)) - 1), v \in Elem :
            Written("*it=", this, i, v, IteratorWrite(Heap, this, i, v))

\* A statement that constructs a collection in place of X or Y.
Constructed(name, a, h) ==
    /\ op = "none"
    /\ mem' = h.mem
    /\ buf' = h.buf
    /\ op' = name
    /\ recv' = "X"
    /\ arg' = a
    /\ err' = "None"
    /\ ret' = <<>>
    /\ UNCHANGED writes

\* X = CLinqCollection<TElement>(V)
FromVectorStep == Constructed("FromVector", 0, ConstructFromVector(Heap, "X", "V"))

\* X = CLinqCollection<TElement>(V.data(), n), n within the block as the
\* constructor requires of its caller.
FromMemoryStep ==
    \E n \in 0..Count(V) : Constructed("FromMemory", n, ConstructFromMemory(Heap, "X", "V", n))

\* Y = X
CopyStep == Constructed("Copy", 0, CopyConstruct(Heap, "Y", "X"))

\* Indexed access and slicing of one collection.
InitSlice == \E xs \in SeqsUpTo(MaxLen) : InitHeap(xs, <<>>, <<>>)

NextSlice ==
    \/ AtStep
    \/ SkipStep
    \/ SkipLastStep
    \/ TakeStep
    \/ TakeLastStep
    \/ DiscardStep

SpecSlice == InitSlice /\ [][NextSlice]_vars

\* Concatenation and the set operations of two collections.
InitSet == \E xs \in SeqsUpTo(MaxLen), ys \in SeqsUpTo(MaxLen) : InitHeap(xs, ys, <<>>)

NextSet ==
    \/ PlusStep
    \/ ConcatStep
    \/ DistinctStep
    \/ UnionStep
    \/ IntersectionStep
    \/ ExceptStep
    \/ EqualsStep
    \/ EmptyStep
    \/ DiscardStep

SpecSet == InitSet /\ [][NextSet]_vars

\* Construction from a vector or a memory block, copies, calls and writes.
InitWrite == \E vs \in SeqsUpTo(MaxLenF) : InitHeap(<<>>, <<>>, vs)

NextWrite ==
    \/ FromVectorStep
    \/ FromMemoryStep
    \/ CopyStep
    \/ TakeStep
    \/ ReverseStep
    \/ WriteStep
    \/ DiscardStep

SpecWrite == InitWrite /\ [][NextWrite]_vars

\* Every member function on X with argument Y, and the writes through
\* operator[] and through iterators, here made between the calls.
IdleWriteStep == op = "none" /\ WriteStep

IdleIteratorWriteStep == op = "none" /\ IteratorWriteStep

Init == \E xs \in SeqsUpTo(MaxLenF), ys \in SeqsUpTo(MaxLenArg) : InitHeap(xs, ys, <<>>)

Next ==
    \/ AtStep
    \/ SkipStep
    \/ SkipLastStep
    \/ TakeStep
    \/ TakeLastStep
    \/ PlusStep
    \/ ConcatStep
    \/ DistinctStep
    \/ UnionStep
    \/ IntersectionStep
    \/ ExceptStep
    \/ AllStep
    \/ AnyStep
    \/ AnyMatchStep
    \/ CountStep
    \/ CountMatchStep
    \/ WhereStep
    \/ SkipWhileStep
    \/ TakeWhileStep
    \/ AppendStep
    \/ PrependStep
    \/ ContainsStep
    \/ FirstStep
    \/ LastStep
    \/ SingleStep
    \/ ReverseStep
    \/ SelectStep
    \/ StaticCastStep
    \/ ToVectorStep
    \/ ToListStep
    \/ ToMapStep
    \/ ToUnorderedMapStep
    \/ IdleWriteStep
    \/ IdleIteratorWriteStep
    \/ DiscardStep

Spec == Init /\ [][Next]_vars

\* The queries, filters and projections of one collection.
InitQuery == \E xs \in SeqsUpTo(MaxLen) : InitHeap(xs, <<>>, <<>>)

NextQuery ==
    \/ FirstStep
    \/ LastStep
    \/ SingleStep
    \/ AllStep
    \/ AnyStep
    \/ AnyMatchStep
    \/ WhereStep
    \/ SelectStep
    \/ TakeWhileStep
    \/ SkipWhileStep
    \/ ReverseStep
    \/ ToMapStep
    \/ ToUnorderedMapStep
    \/ DiscardStep

SpecQuery == InitQuery /\ [][NextQuery]_vars

\* The factories, Append and Prepend, and the exports of one collection.
InitBuild == \E xs \in SeqsUpTo(MaxLen) : InitHeap(xs, <<>>, <<>>)

NextBuild ==
    \/ RepeatStep
    \/ RangeStep
    \/ AppendStep
    \/ PrependStep
    \/ ToVectorStep
    \/ ToListStep
    \/ ToSetStep
    \/ DiscardStep

SpecBuild == InitBuild /\ [][NextBuild]_vars

----------------------------------------------------------------------------
(* Properties.                                                             *)

\* The collection an outcome returned.
Returned(o) == o.mem[o.buf["R"]]

\* s is the n elements of t that start after its first k elements, in order.
IsSlice(s, t, k, n) ==
    /\ Len(s) = n
    /\ \A i \in 1..n : s[i] = t[k + i]

\* The set of values of s.
Values(s) == {s[i] : i \in 1..Len(s)}

\* The position of the first occurrence of e in s.
FirstIndex(s, e) == CHOOSE i \in 1..Len(s) : s[i] = e /\ \A j \in 1..(i - 1) : s[j] # e

NoDuplicates(s) == \A i, j \in 1..Len(s) : s[i] = s[j] => i = j

\* d holds each value of s exactly once, in the order of first occurrence in s.
IsDistinctOf(d, s) ==
    /\ Values(d) = Values(s)
    /\ NoDuplicates(d)
    /\ \A i, j \in 1..Len(d) : i < j => FirstIndex(s, d[i]) < FirstIndex(s, d[j])

\* C1: At(i) on a collection with no elements fails with EmptyCollection for
\* every i; on a non-empty one it fails with IndexOutOfRange exactly when
\* i >= Count() and otherwise returns the element at position i.
C1_AtChecksEmptinessBeforeRange ==
    op = "At" =>
        /\ Count(X) = 0 => err = EmptyCollection
        /\ Count(X) > 0 => (err = IndexOutOfRange <=> arg >= Count(X))
        /\ Count(X) > 0 /\ arg < Count(X) => err = "None" /\ ret = <<X[arg + 1]>>

C1_Witness ==
    op = "At" /\ Count(X) = 0 /\ arg > 0 /\ err = EmptyCollection

\* C2: Skip, Take, SkipLast and TakeLast each fail with InvalidOperation
\* exactly when n > Count() and succeed for every n <= Count().
C2_SliceFailsIffCountExceedsSize ==
    op \in {"Skip", "Take", "SkipLast", "TakeLast"} =>
        /\ err = InvalidOperation <=> arg > Count(X)
        /\ arg <= Count(X) => err = "None"

C2_Witness ==
    op = "Take" /\ Count(X) > 0 /\ arg = Count(X) /\ err = "None" /\ R = X

\* C3: for n <= Count(), Take(n) is the first n elements in order, Skip(n)
\* the remaining Count() - n in order, Take(n) + Skip(n) is the collection
\* and the two counts add up to Count().
C3_TakeIsPrefixSkipIsRest ==
    /\ op = "Take" /\ err = "None" => IsSlice(R, X, 0, arg)
    /\ op = "Skip" /\ err = "None" =>
          /\ IsSlice(R, X, arg, Count(X) - arg)
          /\ LET taken == Take(Heap, "X", arg) IN
                /\ taken.err = "None"
                /\ Returned(taken) \o R = X
                /\ Count(Returned(taken)) + Count(R) = Count(X)

C3_Witness ==
    op = "Skip" /\ err = "None" /\ 0 < arg /\ arg < Count(X) /\ R # <<>>

\* C4: for n <= Count(), TakeLast(n) is the last n elements in their
\* original order, SkipLast(n) the first Count() - n, SkipLast(n) +
\* TakeLast(n) is the collection, SkipLast(n) = Take(Count() - n) and
\* TakeLast(n) = Skip(Count() - n).
C4_TakeLastIsSuffixSkipLastIsRest ==
    /\ op = "SkipLast" /\ err = "None" =>
          /\ IsSlice(R, X, 0, Count(X) - arg)
          /\ R = Returned(Take(Heap, "X", Count(X) - arg))
    /\ op = "TakeLast" /\ err = "None" =>
          /\ IsSlice(R, X, Count(X) - arg, arg)
          /\ R = Returned(Skip(Heap, "X", Count(X) - arg))
          /\ Returned(SkipLast(Heap, "X", arg)) \o R = X

C4_Witness ==
    op = "TakeLast" /\ err = "None" /\ arg = 2 /\ arg < Count(X) /\ R[1] # R[2]

\* C5: A + B has Count A.Count() + B.Count(), element i is A's element i
\* for i < A.Count() and B's element i - A.Count() otherwise, and A.Concat(B)
\* equals A + B.
C5_PlusIsConcatenation ==
    op \in {"+", "Concat"} =>
        /\ err = "None"
        /\ Count(R) = Count(X) + Count(Y)
        /\ \A i \in 1..Count(R) :
              R[i] = IF i <= Count(X) THEN X[i] ELSE Y[i - Count(X)]
        /\ op = "Concat" => R = Returned(OperatorPlus(Heap, "X", "Y"))

C5_Witness ==
    op = "Concat" /\ Count(X) > 0 /\ Count(Y) > 1 /\ X \o Y # Y \o X /\ R = X \o Y

C7_WriteChangesOneElementOfOneCollection ==
    [][op' = "[]=" =>
          /\ Len(mem'[buf'[recv']]) = Len(mem[buf[recv']])
          /\ \A j \in 1..Len(mem[buf[recv']]) :
                mem'[buf'[recv']][j] =
                    IF j = arg' + 1 THEN ret'[1] ELSE mem[buf[recv']][j]
          /\ \A o \in {"X", "Y", "V", "R"} \ {recv'} : mem'[buf'[o]] = mem[buf[o]]
      ]_vars

C7_Witness ==
    /\ op = "[]=" /\ recv = "X" /\ writes = 1
    /\ Count(X) = Count(V) /\ X[arg + 1] # V[arg + 1]
    /\ Y = V
    /\ Count(R) > arg /\ R = SubSeq(V, 1, Count(R))

\* C8: Distinct() holds each distinct value of the collection exactly once,
\* ordered by first occurrence, and Distinct().Distinct() = Distinct().
C8_DistinctKeepsFirstOccurrences ==
    op = "Distinct" =>
        /\ err = "None"
        /\ IsDistinctOf(R, X)
        /\ Returned(Distinct(Heap, "R")) = R

C8_Witness ==
    op = "Distinct" /\ Count(X) = 3 /\ X[1] = X[3] /\ X[1] > X[2] /\ R = <<X[1], X[2]>>

\* C9: Union is the distinct elements of X in first-occurrence order, then
\* the distinct elements of Y that do not occur in X in Y's first-occurrence
\* order; it never holds two equal elements and equals (X + Y).Distinct().
C9_UnionIsDistinctOfConcatenation ==
    op = "Union" =>
        LET k == Cardinality(Values(X))
            notInX(e) == e \notin Values(X)
            plus == OperatorPlus(Heap, "X", "Y")
        IN /\ err = "None"
           /\ Count(R) >= k
           /\ IsDistinctOf(SubSeq(R, 1, k), X)
           /\ IsDistinctOf(SubSeq(R, k + 1, Count(R)), SelectSeq(Y, notInX))
           /\ NoDuplicates(R)
           /\ R = Returned(Distinct(plus, "R"))

C9_Witness ==
    /\ op = "Union"
    /\ Count(X) > Cardinality(Values(X))
    /\ Count(Y) = 3 /\ Y[1] = Y[3] /\ Y[1] \notin Values(X) /\ Y[2] \in Values(X)
    /\ R = <<Y[2], Y[1]>>

C11_ExceptFiltersReceiver ==
    op = "Except" =>
        LET notInY(e) == \A i \in 1..Count(Y) : Y[i] # e IN
        /\ err = "None"
        /\ R = SelectSeq(X, notInY)
        /\ Y = <<>> => R = X
        /\ Returned(Except(Heap, "X", "X")) = <<>>
        /\ Count(R) + Count(Returned(Intersection(Heap, "X", "Y"))) = Count(X)

C11_Witness ==
    /\ op = "Except"
    /\ Count(X) = 3 /\ X[1] = X[3] /\ X[1] # X[2]
    /\ Count(Y) = 2 /\ Y[2] = X[2] /\ Y[1] \notin Values(X)
    /\ R = <<X[1], X[1]>>

\* C12: Single() fails with EmptyCollection when Count() = 0, fails with
\* MultipleElements when Count() > 1, and returns the sole element exactly
\* when Count() = 1.
C12_SingleNeedsExactlyOne ==
    op = "Single" =>
        /\ Count(X) = 0 => err = EmptyCollection /\ ret = <<>>
        /\ Count(X) > 1 => err = MultipleElements /\ ret = <<>>
        /\ Count(X) = 1 => err = "None" /\ ret = <<X[1]>>
        /\ err = "None" => Count(X) = 1

C12_Witness ==
    /\ op = "Single"
    /\ Count(X) = 2
    /\ X[1] # X[2]
    /\ err = MultipleElements

\* C13: First() and Last() fail with EmptyCollection exactly when the
\* collection has no elements; otherwise First() returns the element at
\* position 0 and Last() the element at position Count()-1.
C13_FirstAndLast ==
    /\ op \in {"First", "Last"} => (err = EmptyCollection <=> Count(X) = 0)
    /\ op \in {"First", "Last"} => err \in {EmptyCollection, "None"}
    /\ op = "First" /\ Count(X) > 0 => ret = <<X[1]>>
    /\ op = "Last" /\ Count(X) > 0 => ret = <<X[Count(X)]>>
    /\ op \in {"First", "Last"} /\ Count(X) = 1 => ret = <<X[1]>>

C13_Witness ==
    /\ op = "Last"
    /\ Count(X) = 3
    /\ X[3] # X[1] /\ X[3] # X[2]
    /\ ret = <<X[3]>>

\* C14: All(p) is true iff no element of X fails p and Any(p) is true iff
\* some element of X satisfies p; on an empty collection All(p) is true and
\* Any(p) is false, and All(p) = not Any(not p) on every collection.
C14_AllAndAnyAreQuantifiers ==
    /\ op \in {"All", "AnyMatch"} => err = "None"
    /\ op = "All" =>
        /\ ret = <<\A i \in 1..Count(X) : X[i] \in arg>>
        /\ Count(X) = 0 => ret = <<TRUE>>
        /\ ret[1] = ~AnyMatch(Heap, "X", Elem \ arg).ret[1]
    /\ op = "AnyMatch" =>
        /\ ret = <<\E i \in 1..Count(X) : X[i] \in arg>>
        /\ Count(X) = 0 => ret = <<FALSE>>
        /\ ret[1] = ~All(Heap, "X", Elem \ arg).ret[1]

C14_Witness ==
    /\ op = "All"
    /\ Count(X) = 0
    /\ arg = {}
    /\ ret = <<TRUE>>

\* C15: Where(p) keeps exactly the elements of X that satisfy p, in X's
\* order and with duplicates; Where(alwaysTrue) = X and
\* Where(alwaysFalse) is empty.
C15_WhereFilters ==
    op = "Where" =>
        LET p(e) == e \in arg IN
        /\ err = "None"
        /\ R = SelectSeq(X, p)
        /\ arg = Elem => R = X
        /\ arg = {} => R = <<>>

C15_Witness ==
    /\ op = "Where"
    /\ Count(X) = 3
    /\ X[1] = X[3] /\ X[1] \in arg /\ X[2] \notin arg
    /\ R = <<X[1], X[1]>>

\* C16: Select(f) has the same Count() as X and its element at each
\* position i is f applied to X's element at position i; Select on an empty
\* collection is empty.
C16_SelectProjectsPositionally ==
    op = "Select" =>
        /\ err = "None"
        /\ Count(R) = Count(X)
        /\ \A i \in 1..Count(X) : R[i] = arg[X[i]]
        /\ X = <<>> => R = <<>>

C16_Witness ==
    /\ op = "Select"
    /\ Count(X) = 2
    /\ arg[X[1]] # arg[X[2]]
    /\ arg[X[1]] # X[1]
    /\ R = <<arg[X[1]], arg[X[2]]>>

\* The number of leading elements of s accepted by the match function m.
LeadingMatches(s, m) ==
    CHOOSE k \in 0..Len(s) :
        /\ \A i \in 1..k : s[i] \in m
        /\ k < Len(s) => s[k + 1] \notin m

\* C17: with k the number of leading elements of X that satisfy p,
\* TakeWhile(p) = Take(k) and SkipWhile(p) = Skip(k); elements after the
\* first failure are kept by SkipWhile and dropped by TakeWhile, neither
\* fails, and TakeWhile(p) + SkipWhile(p) = X.
C17_WhileSplitsAtFirstFailure ==
    op \in {"TakeWhile", "SkipWhile"} =>
        LET k == LeadingMatches(X, arg)
            taken == Returned(TakeWhile(Heap, "X", arg))
            skipped == Returned(SkipWhile(Heap, "X", arg))
        IN /\ err = "None"
           /\ k <= Count(X)
           /\ op = "TakeWhile" => R = Returned(Take(Heap, "X", k)) /\ R = SubSeq(X, 1, k)
           /\ op = "SkipWhile" => R = Returned(Skip(Heap, "X", k))
                                  /\ R = SubSeq(X, k + 1, Count(X))
           /\ taken \o skipped = X

C17_Witness ==
    /\ op = "SkipWhile"
    /\ Count(X) = 3
    /\ X[1] \in arg /\ X[2] \notin arg /\ X[3] \in arg
    /\ R = <<X[2], X[3]>>

\* C18: X.Reverse() has the same Count() as X and its element i is X's
\* element Count()-1-i, so reversing twice gives X again.
C18_ReverseIsInvolution ==
    op = "Reverse" =>
        /\ err = "None"
        /\ Count(R) = Count(X)
        /\ \A i \in 0..(Count(X) - 1) : R[i + 1] = X[(Count(X) - 1 - i) + 1]
        /\ Returned(Reverse(Heap, "R")) = X

C18_Witness ==
    /\ op = "Reverse"
    /\ Count(X) = 3
    /\ X[1] # X[3]
    /\ R = <<X[3], X[2], X[1]>>

\* C19: ToMap and ToUnorderedMap return a mapping whose key set is the
\* set of keySelector(e) over the elements e, and each key maps to
\* valueSelector of the last element, in order, that projects to that key.
C19_MapKeepsLastValuePerKey ==
    op \in {"ToMap", "ToUnorderedMap"} =>
        LET keySelector == arg[1]
            valueSelector == arg[2]
            map == ret[1]
            last(key) == CHOOSE i \in 1..Count(X) :
                            /\ keySelector[X[i]] = key
                            /\ \A j \in (i + 1)..Count(X) : keySelector[X[j]] # key
        IN /\ err = "None"
           /\ DOMAIN map = {keySelector[X[i]] : i \in 1..Count(X)}
           /\ \A key \in DOMAIN map : map[key] = valueSelector[X[last(key)]]

C19_Witness ==
    /\ op = "ToMap"
    /\ Count(X) = 3
    /\ arg[1][X[1]] = arg[1][X[3]]
    /\ arg[1][X[1]] # arg[1][X[2]]
    /\ arg[2][X[1]] # arg[2][X[3]]
    /\ ret[1][arg[1][X[1]]] = arg[2][X[3]]

\* C20: two collections compare equal iff they have the same Count() and
\* the elements at every position are equal; collections of different size,
\* or with the same elements in a different order, are not equal, and
\* Empty() equals a default-constructed collection.
C20_EqualityIsPositionwise ==
    /\ op = "==" =>
        /\ err = "None"
        /\ ret = <<Count(X) = Count(Y) /\ \A i \in 1..Count(X) : X[i] = Y[i]>>
        /\ Count(X) # Count(Y) => ret = <<FALSE>>
        /\ Count(X) = Count(Y) /\ (\E i \in 1..Count(X) : X[i] # Y[i]) => ret = <<FALSE>>
    /\ op = "Empty" =>
        LET h == DefaultConstruct(Heap, "newElements") IN
        /\ err = "None"
        /\ R = <<>>
        /\ OperatorEquals(h, "R", "newElements").ret = <<TRUE>>
        /\ OperatorEquals(h, "newElements", "R").ret = <<TRUE>>

C20_Witness ==
    /\ op = "=="
    /\ Count(X) = 2 /\ Count(Y) = 2
    /\ X[1] # X[2]
    /\ Y = <<X[2], X[1]>>
    /\ ret = <<FALSE>>

\* C21: Range(initial, count) returns a collection of exactly count
\* elements whose element 0 is initial and whose element i+1 is the
\* successor of element i, and Range(initial, 0) is empty; Repeat(value,
\* count) returns exactly count elements all equal to value.
C21_RangeAndRepeat ==
    /\ op = "Range" =>
        LET initial == arg[1]
            count == arg[2]
        IN /\ err = "None"
           /\ Count(R) = count
           /\ count > 0 => R[1] = initial
           /\ \A i \in 1..(count - 1) : R[i] < IntMax => R[i + 1] = R[i] + 1
           /\ count = 0 => R = <<>>
    /\ op = "Repeat" =>
        LET value == arg[1]
            count == arg[2]
        IN /\ err = "None"
           /\ Count(R) = count
           /\ \A i \in 1..count : R[i] = value

C21_Witness ==
    /\ op = "Range"
    /\ arg = <<1, 3>>
    /\ R = <<1, 2, 3>>

\* The collection {v}: a collection constructed with the single element v.
Singleton(h, v) == VectorConstruct(h, "collection", <<v>>)

\* C22: X.Append(v) = X + {v} and X.Prepend(v) = {v} + X: each result has
\* Count() = X.Count() + 1, keeps X's elements in their relative order, and
\* has v as its last (Append) or first (Prepend) element.
C22_AppendAndPrependAreConcatenations ==
    /\ op \in {"Append", "Prepend"} => err = "None" /\ Count(R) = Count(X) + 1
    /\ op = "Append" =>
        /\ R = Returned(OperatorPlus(Singleton(Heap, arg), "X", "collection"))
        /\ R[Count(R)] = arg
        /\ SubSeq(R, 1, Count(X)) = X
    /\ op = "Prepend" =>
        /\ R = Returned(OperatorPlus(Singleton(Heap, arg), "collection", "X"))
        /\ R[1] = arg
        /\ SubSeq(R, 2, Count(R)) = X

C22_Witness ==
    /\ op = "Prepend"
    /\ Count(X) = 2
    /\ X[1] # X[2] /\ arg # X[1] /\ arg # X[2]
    /\ R = <<arg, X[1], X[2]>>

\* C23: the exports return independent copies in the requested shape:
\* ToVector() and ToList() return all elements of the collection in its
\* order, and ToSet() returns the elements as a unique-element collection
\* holding each distinct element value exactly once.
C23_ExportsAreIndependentCopies ==
    /\ op \in {"ToVector", "ToList"} =>
        /\ err = "None"
        /\ R = X
        /\ buf["R"] # buf["X"]
    /\ op = "ToSet" =>
        /\ err = "None"
        /\ Values(R) = Values(X)
        /\ NoDuplicates(R)
        /\ buf["R"] # buf["X"]

====
